---- MODULE Spec2Model ----
(***************************************************************************)
(* A model of the file registry of the docmgmt ("filenet") application:    *)
(* the File model (app/models/models.py), the local storage adapter        *)
(* (app/utils/s3_utils.py), the web and API handlers that sequence them    *)
(* (app/main/routes.py, app/api/routes.py), the account handlers           *)
(* (app/auth/routes.py) and the two Lambda handlers (AISQL.py, lambda.py). *)
(*                                                                         *)
(* Strings are sequences of one-character strings, so that substring and   *)
(* case-insensitive matching are computed rather than assumed.  Identifier *)
(* generation (ObjectId) is modelled by the position of a document in its  *)
(* collection; timestamps (created_at, modified_at) are not modelled.      *)
(* Permission lists are modelled as sets: the code only tests membership.  *)
(***************************************************************************)
EXTENDS Integers, Sequences, FiniteSets, TLC

\* ------------------------------------------------------------------ bounds

\* At most this many FileRecords are created.
MaxFiles == 1
\* At most this many FileVersion rows are written for one file.
MaxVersions == 3
\* Number of concurrently running requests in the interleaved specifications.
NumProcs == 2

\* ------------------------------------------------------------ input domains

\* Python's None, and a present value: an optional value is a sequence of
\* length 0 or 1.
None == <<>>
Some(x) == <<x>>
Get(opt) == opt[1]
Users == {"u1", "u2"}

\* Uploaded files (client-supplied filename and bytes): an allowed
\* extension, the same name behind a path prefix that secure_filename
\* removes, with other bytes, a disallowed extension, and no extension.
Uploads ==
    { [name |-> <<"A", ".", "t", "x", "t">>, data |-> <<"x">>],
      [name |-> <<"/", "A", ".", "t", "x", "t">>, data |-> <<"y", "y">>],
      [name |-> <<"b", ".", "e", "x", "e">>, data |-> <<"x">>],
      [name |-> <<"c">>, data |-> <<"y", "y">>] }

\* Sharing forms (the read_users, write_users and delete_users lists): lists
\* that are empty, that name everybody, and that name one user.
ShareForms ==
    { [read |-> {}, write |-> {}, delete |-> {}],
      [read |-> Users, write |-> {}, delete |-> {}],
      [read |-> Users, write |-> Users, delete |-> {}],
      [read |-> Users, write |-> Users, delete |-> Users],
      [read |-> {}, write |-> {"u2"}, delete |-> {}],
      [read |-> {}, write |-> {}, delete |-> {"u1"}] }

\* Metadata forms (title, description, comma-separated keywords).
Forms ==
    { [title |-> <<>>, description |-> <<>>, keywords |-> <<>>],
      [title |-> <<"R", "a">>, description |-> <<"b">>,
       keywords |-> <<"k", ",", "a">>] }

\* Search queries: a letter, a letter found nowhere, a regex wildcard.
Queries == { <<"a">>, <<"z">>, <<".">> }

\* ------------------------------------------------------------ string helpers

\* str.lower() on one character of the model's alphabet.
lower_char(c) ==
    CASE c = "A" -> "a"
      [] c = "R" -> "r"
      [] OTHER -> c

lower(s) == [i \in 1..Len(s) |-> lower_char(s[i])]

Contains(s, c) == \E i \in 1..Len(s) : s[i] = c

LastIndexOf(s, c) ==
    IF Contains(s, c)
    THEN CHOOSE i \in 1..Len(s) : s[i] = c /\ \A j \in (i+1)..Len(s) : s[j] # c
    ELSE 0

\* filename.rsplit('.', 1)[1].lower() if '.' in filename else ''
file_ext(filename) ==
    IF Contains(filename, ".")
    THEN lower(SubSeq(filename, LastIndexOf(filename, ".") + 1, Len(filename)))
    ELSE <<>>

\* str.split(sep) for a one-character separator.
RECURSIVE split(_, _)
split(s, sep) ==
    IF ~Contains(s, sep) THEN <<s>>
    ELSE LET i == CHOOSE k \in 1..Len(s) :
                      s[k] = sep /\ \A j \in 1..(k-1) : s[j] # sep
         IN  <<SubSeq(s, 1, i - 1)>> \o split(SubSeq(s, i + 1, Len(s)), sep)

\* werkzeug's secure_filename on the model's alphabet: path separators
\* become spaces, whitespace-separated parts are joined by "_", characters
\* outside [A-Za-z0-9_.-] are dropped, leading and trailing "." and "_" are
\* stripped.
SafeChars == {"A", "R", "a", "b", "c", "e", "k", "t", "x", ".", "_", "-"}

RECURSIVE StripLead(_)
StripLead(s) ==
    IF s # <<>> /\ s[1] \in {".", "_"} THEN StripLead(Tail(s)) ELSE s

RECURSIVE StripTrail(_)
StripTrail(s) ==
    IF s # <<>> /\ s[Len(s)] \in {".", "_"}
    THEN StripTrail(SubSeq(s, 1, Len(s) - 1)) ELSE s

RECURSIVE JoinParts(_)
JoinParts(parts) ==
    IF parts = <<>> THEN <<>>
    ELSE IF Len(parts) = 1 THEN parts[1]
    ELSE parts[1] \o <<"_">> \o JoinParts(Tail(parts))

secure_filename(name) ==
    LET spaced == [i \in 1..Len(name) |->
                      IF name[i] = "/" THEN " " ELSE name[i]]
        parts  == SelectSeq(split(spaced, " "), LAMBDA p : p # <<>>)
        joined == JoinParts(parts)
        kept   == SelectSeq(joined, LAMBDA c : c \in SafeChars)
    IN  StripTrail(StripLead(kept))

\* Mongo's {"$regex": query, "$options": "i"} on a string field: the pattern
\* is searched anywhere in the text, case-insensitively; "." matches any
\* character.
regex_search(query, text) ==
    \E off \in 0..(Len(text) - Len(query)) :
        \A i \in 1..Len(query) :
            \/ query[i] = "."
            \/ lower_char(query[i]) = lower_char(text[off + i])

\* The same on an array field: some element matches.
regex_search_any(query, texts) ==
    \E k \in 1..Len(texts) : regex_search(query, texts[k])

\* ------------------------------------------------------------------- config

txt == <<"t", "x", "t">>
pdf == <<"p", "d", "f">>
ALLOWED_EXTENSIONS ==
    { txt, pdf, <<"d", "o", "c">>, <<"d", "o", "c", "x">>,
      <<"x", "l", "s">>, <<"x", "l", "s", "x">>, <<"p", "p", "t">>,
      <<"p", "p", "t", "x">>, <<"j", "p", "g">>, <<"j", "p", "e", "g">>,
      <<"p", "n", "g">>, <<"g", "i", "f">> }

\* ----------------------------------------------------------------- variables

VARIABLES
    files,      \* files_collection: sequence of FileRecords, _id = position
    versions,   \* file_versions_collection: FileVersion rows, insertion order
    storage,    \* the local storage tree: path -> bytes, absent paths omitted
    procs,      \* the requests in flight in the interleaved specifications
    users       \* users_collection: sequence of UserAccounts, insertion order

vars == <<files, versions, storage, procs, users>>

Procs == 1..NumProcs

FileIds == DOMAIN files

\* Merge of a Mongo "$set" document into a stored document.
SetFields(doc, update_data) ==
    [k \in DOMAIN doc |->
        IF k \in DOMAIN update_data THEN update_data[k] ELSE doc[k]]

\* ---------------------------------------------------------- storage adapter

\* The storage path convention of the handlers: users/<userId>/<filename>.
user_path(user_id, filename) == <<"users", user_id, filename>>

\* The storage tree maps each path that exists below the storage root to
\* the bytes of the file there, or to DIRECTORY; the root itself (the
\* empty path) always exists, as __init__ creates it.
DIRECTORY == <<"<dir>">>

\* The directories above a path, the root left out.
Prefixes(path) == { SubSeq(path, 1, n) : n \in 1..(Len(path) - 1) }

\* os.path.exists(full_path)
path_exists(st, path) == path = <<>> \/ path \in DOMAIN st

is_dir(st, path) ==
    path = <<>> \/ (path \in DOMAIN st /\ st[path] = DIRECTORY)

is_file(st, path) == path \in DOMAIN st /\ st[path] # DIRECTORY

\* LocalStorage.upload_file.  fault names where an I/O error strikes:
\* "none", "open" (makedirs raises: nothing created) or "write"
\* (open(..., 'wb') has truncated the file when the write raises).
\* Without a fault, makedirs raises when a file stands where a directory is
\* needed, and open raises when the path is a directory.
LocalStorage_upload_file(st, file_data, file_path, fault) ==
    LET put(bytes) ==
            [p \in (DOMAIN st) \cup Prefixes(file_path) \cup {file_path} |->
                IF p = file_path THEN bytes
                ELSE IF p \in Prefixes(file_path) THEN DIRECTORY
                ELSE st[p]]
    IN  CASE fault = "open"  ->
                [success |-> FALSE, value |-> "error", storage |-> st]
          [] fault # "open" /\ \/ is_dir(st, file_path)
                               \/ \E q \in Prefixes(file_path) :
                                      is_file(st, q) ->
                [success |-> FALSE, value |-> "error", storage |-> st]
          [] fault = "write" ->
                [success |-> FALSE, value |-> "error", storage |-> put(<<>>)]
          [] OTHER ->
                [success |-> TRUE, value |-> file_path,
                 storage |-> put(file_data)]

\* LocalStorage.download_file: open raises on a directory.
LocalStorage_download_file(st, file_path) ==
    IF ~path_exists(st, file_path)
    THEN [success |-> FALSE, value |-> "File not found"]
    ELSE IF is_dir(st, file_path)
    THEN [success |-> FALSE, value |-> "Is a directory"]
    ELSE [success |-> TRUE, value |-> st[file_path]]

\* LocalStorage.delete_file: os.remove raises on a directory.
LocalStorage_delete_file(st, file_path) ==
    IF ~path_exists(st, file_path)
    THEN [success |-> FALSE, value |-> "File not found", storage |-> st]
    ELSE IF is_dir(st, file_path)
    THEN [success |-> FALSE, value |-> "Is a directory", storage |-> st]
    ELSE [success |-> TRUE, value |-> "File deleted successfully",
          storage |-> [p \in (DOMAIN st) \ {file_path} |-> st[p]]]

\* LocalStorage.generate_presigned_url: the URL names the path (its token
\* and expiry depend on the clock and are left out).
LocalStorage_generate_presigned_url(st, file_path) ==
    IF ~path_exists(st, file_path)
    THEN [success |-> FALSE, value |-> <<"File not found">>]
    ELSE [success |-> TRUE, value |-> <<"/files/">> \o file_path]

UploadFaults == {"none", "open"}

\* ------------------------------------------------------------ the File model


\* Mutant: the document starts at version 0 and without a size.
file_doc_from_zero(user_id, filename, s3_key, file_type, file_size, metadata) ==
    [ user_id |-> user_id,
      filename |-> filename,
      s3_key |-> s3_key,
      file_type |-> file_type,
      file_size |-> 0,
      metadata |-> metadata,
      is_deleted |-> FALSE,
      current_version |-> 0,
      permissions |-> [owner |-> user_id, read |-> {user_id},
                       write |-> {user_id}, delete |-> {user_id}] ]

\* File.create_file: the file document.
file_doc(user_id, filename, s3_key, file_type, file_size, metadata) ==
    [ user_id |-> user_id,
      filename |-> filename,
      s3_key |-> s3_key,
      file_type |-> file_type,
      file_size |-> file_size,
      metadata |-> metadata,
      is_deleted |-> FALSE,
      current_version |-> 1,
      permissions |-> [owner |-> user_id, read |-> {user_id},
                       write |-> {user_id}, delete |-> {user_id}] ]

\* The comment stored with a version: the form's comment is left empty, so
\* "Initial version" for the first and f"Version {n}" for the others.
version_comment(n) == IF n = 1 THEN <<"Initial version">> ELSE <<"Version", n>>

\* A FileVersion document (create_file and add_new_version build the same
\* shape).
version_doc(file_id, version_number, s3_key, user_id, file_size) ==
    [ file_id |-> file_id,
      version_number |-> version_number,
      s3_key |-> s3_key,
      created_by |-> user_id,
      file_size |-> file_size,
      comment |-> version_comment(version_number) ]

\* files_collection.insert_one: the new document's _id is its position.
insert_file(fs, doc) == Append(fs, doc)


\* Mutant: the insert is an upsert on (file_id, version_number).
insert_version_upsert(vs, doc) ==
    LET hits == { i \in DOMAIN vs :
                      /\ vs[i].file_id = doc.file_id
                      /\ vs[i].version_number = doc.version_number }
    IN  IF hits = {} THEN Append(vs, doc)
        ELSE [i \in DOMAIN vs |-> IF i \in hits THEN doc ELSE vs[i]]

\* file_versions_collection.insert_one
insert_version(vs, doc) == Append(vs, doc)

\* File.create_file: both inserts; ret is the new file's _id.
create_file(fs, vs, user_id, filename, s3_key, file_type, file_size, metadata) ==
    LET fs2 == insert_file(fs, file_doc(user_id, filename, s3_key, file_type,
                                        file_size, metadata))
        file_id == Len(fs2)
    IN  [ files |-> fs2,
          versions |-> insert_version(vs,
                          version_doc(file_id, 1, s3_key, user_id, file_size)),
          ret |-> file_id ]

\* Mutant: the query leaves is_deleted out.
get_file_by_id_any(fs, file_id) ==
    IF file_id \in DOMAIN fs THEN Some(fs[file_id]) ELSE None

\* File.get_file_by_id: the document, or None.
get_file_by_id(fs, file_id) ==
    IF file_id \in DOMAIN fs /\ ~fs[file_id].is_deleted
    THEN Some(fs[file_id]) ELSE None

\* File.get_user_files, as the set of _ids returned.
get_user_files(fs, user_id) ==
    { f \in DOMAIN fs : fs[f].user_id = user_id /\ ~fs[f].is_deleted }

\* The "$or" list File.search_files first builds: the text conditions.
text_conditions(doc, query) ==
    \/ regex_search(query, doc.filename)
    \/ regex_search(query, doc.metadata.title)
    \/ regex_search(query, doc.metadata.description)
    \/ regex_search_any(query, doc.metadata.keywords)

\* Mutant: the read condition only asks whether the list has a member.
visibility_conditions_any_reader(doc, user_id) ==
    \/ doc.user_id = user_id
    \/ doc.permissions.read # {}

\* The "$or" list File.search_files assigns when user_id is given.
visibility_conditions(doc, user_id) ==
    \/ doc.user_id = user_id
    \/ user_id \in doc.permissions.read

\* File.search_files, as the set of _ids returned; user_id is optional (None
\* or Some(id)).  The dictionary holds one
\* "$or" key: the assignment under "if user_id" replaces the text conditions.
File_search_files(fs, query, user_id) ==
    { f \in DOMAIN fs :
        /\ IF user_id # None
           THEN visibility_conditions(fs[f], Get(user_id))
           ELSE text_conditions(fs[f], query)
        /\ ~fs[f].is_deleted }


\* Mutant: every update also increments current_version.
update_file_bumping(fs, file_id, update_data) ==
    [ files |-> IF file_id \in DOMAIN fs
                THEN [fs EXCEPT ![file_id] =
                         [SetFields(@, update_data) EXCEPT
                              !.current_version = @ + 1]]
                ELSE fs,
      ret |-> None ]

\* File.update_file: "$set" on the document with that _id (deleted or not).
\* The function has no return statement: callers receive None.
update_file(fs, file_id, update_data) ==
    [ files |-> IF file_id \in DOMAIN fs
                THEN [fs EXCEPT ![file_id] = SetFields(@, update_data)]
                ELSE fs,
      ret |-> None ]

\* Mutant: the delete also clears the document's storage reference.
soft_delete_unlinked(fs, file_id) ==
    IF file_id \in DOMAIN fs
    THEN [fs EXCEPT ![file_id] =
             SetFields(@, [is_deleted |-> TRUE, s3_key |-> <<>>])]
    ELSE fs

\* File.soft_delete
soft_delete(fs, file_id) ==
    IF file_id \in DOMAIN fs
    THEN [fs EXCEPT ![file_id] = SetFields(@, [is_deleted |-> TRUE])]
    ELSE fs

\* Mutant: the increment is forgotten.
next_version_number_stale(file_info) == file_info.current_version

\* File.add_new_version: new_version = file_info["current_version"] + 1
next_version_number(file_info) == file_info.current_version + 1

\* Mutant: the update leaves current_version out of the "$set".
set_current_version_no_pointer(fs, file_id, new_version, s3_key, file_size) ==
    IF file_id \in DOMAIN fs
    THEN [fs EXCEPT ![file_id] =
             SetFields(@, [s3_key |-> s3_key, file_size |-> file_size])]
    ELSE fs

\* File.add_new_version: the update of the file document after the insert.
set_current_version(fs, file_id, new_version, s3_key, file_size) ==
    IF file_id \in DOMAIN fs
    THEN [fs EXCEPT ![file_id] =
             SetFields(@, [current_version |-> new_version,
                           s3_key |-> s3_key,
                           file_size |-> file_size])]
    ELSE fs

\* File.add_new_version run without interruption; ret is the new version
\* number, or None when the file is absent or soft-deleted.
add_new_version(fs, vs, file_id, user_id, s3_key, file_size) ==
    LET file_info == get_file_by_id(fs, file_id)
    IN  IF file_info = None
        THEN [files |-> fs, versions |-> vs, ret |-> None]
        ELSE LET new_version == next_version_number(Get(file_info))
             IN  [ files |-> set_current_version(fs, file_id, new_version,
                                                 s3_key, file_size),
                   versions |-> insert_version(vs,
                                   version_doc(file_id, new_version, s3_key,
                                               user_id, file_size)),
                   ret |-> Some(new_version) ]

\* File.get_file_versions, as the set of positions of the file's rows.
get_file_versions(vs, file_id) ==
    { i \in DOMAIN vs : vs[i].file_id = file_id }

\* Mutant: when no row carries the number, the file's latest row is
\* returned instead of None.
get_file_version_or_latest(vs, file_id, version_number) ==
    LET rows == { i \in DOMAIN vs : vs[i].file_id = file_id }
        hits == { i \in rows : vs[i].version_number = version_number }
    IN  IF rows = {} THEN None
        ELSE IF hits = {}
             THEN Some(vs[CHOOSE i \in rows : \A j \in rows : j <= i])
        ELSE Some(vs[CHOOSE i \in hits : \A j \in hits : i <= j])

\* Mutant: the query leaves version_number out and returns the file's first
\* row.
get_file_version_any(vs, file_id, version_number) ==
    LET hits == { i \in DOMAIN vs : vs[i].file_id = file_id }
    IN  IF hits = {} THEN None
        ELSE Some(vs[CHOOSE i \in hits : \A j \in hits : i <= j])

\* File.get_file_version: find_one returns the first matching row, or None.
get_file_version(vs, file_id, version_number) ==
    LET hits == { i \in DOMAIN vs : /\ vs[i].file_id = file_id
                                    /\ vs[i].version_number = version_number }
    IN  IF hits = {} THEN None
        ELSE Some(vs[CHOOSE i \in hits : \A j \in hits : i <= j])

\* ------------------------------------------------------------- web handlers

\* A handler is a function of the stored state and the request: Result is
\* what it answers (status, and for the listing handlers the _ids of the
\* files rendered) together with the collections and the storage tree as
\* it leaves them.
Result(status, fs, vs, st) ==
    [status |-> status, listed |-> {}, files |-> fs, versions |-> vs,
     storage |-> st]

\* A handler that answers without writing anything.
Answer(status) == Result(status, files, versions, storage)

\* A listing handler's answer.
Listing(ids) == [Answer("ok") EXCEPT !.listed = ids]

\* The metadata dictionary the upload and edit forms are turned into.
metadata_from_form(form) ==
    [ title |-> form.title,
      description |-> form.description,
      keywords |-> IF form.keywords # <<>>
                   THEN split(form.keywords, ",") ELSE <<>> ]

\* Mutant: every action is checked against the read list.
permitted_by_read(file_info, user_id, action) ==
    ~(/\ file_info.user_id # user_id
      /\ user_id \notin file_info.permissions.read)

\* The permission check every gated handler repeats: the request goes on
\* unless the requester is neither the owner nor in the action's list.
permitted(file_info, user_id, action) ==
    ~(/\ file_info.user_id # user_id
      /\ user_id \notin file_info.permissions[action])

\* Mutant: the submitted list is stored as it came.
ensure_owner_skipped(members, user_id) == members

\* share_file: "Always ensure owner has all permissions".
ensure_owner(members, user_id) ==
    IF user_id \notin members THEN members \cup {user_id} ELSE members


\* Mutant: the success flag of the storage call is not tested.
upload_file_result_unchecked(user_id, name, file_data, form, fault) ==
    IF Contains(name, ".") /\ file_ext(name) \notin ALLOWED_EXTENSIONS
    THEN Answer("validation_error")
    ELSE LET filename == secure_filename(name)
             up == LocalStorage_upload_file(storage, file_data,
                       user_path(user_id, filename), fault)
             cr == create_file(files, versions, user_id, filename,
                       user_path(user_id, filename), file_ext(filename),
                       Len(file_data), metadata_from_form(form))
         IN  Result("ok", cr.files, cr.versions, up.storage)

\* POST /files/upload
upload_file_result(user_id, name, file_data, form, fault) ==
    IF Contains(name, ".") /\ file_ext(name) \notin ALLOWED_EXTENSIONS
    THEN Answer("validation_error")
    ELSE LET filename == secure_filename(name)
             up == LocalStorage_upload_file(storage, file_data,
                       user_path(user_id, filename), fault)
         IN  IF ~up.success
             THEN Result("storage_failure", files, versions, up.storage)
             ELSE LET cr == create_file(files, versions, user_id, filename,
                                up.value, file_ext(filename),
                                Len(file_data), metadata_from_form(form))
                  IN  Result("ok", cr.files, cr.versions, up.storage)

\* The gate of the read handlers (view_file, download_file, serve_preview):
\* what they answer before any storage access.
read_gate(user_id, file_id) ==
    LET file_info == get_file_by_id(files, file_id)
    IN  IF file_info = None THEN "not_found"
        ELSE IF ~permitted(Get(file_info), user_id, "read") THEN "denied"
        ELSE "ok"

\* GET /files/<file_id>
view_file_result(user_id, file_id) == Answer(read_gate(user_id, file_id))

\* GET /files/<file_id>/download[?version=n]; version is optional.
download_file_result(user_id, file_id, version) ==
    LET gate == read_gate(user_id, file_id)
        version_info == IF version = None THEN None
                        ELSE get_file_version(versions, file_id, Get(version))
        s3_key == IF version = None THEN files[file_id].s3_key
                  ELSE Get(version_info).s3_key
    IN  IF gate # "ok" THEN Answer(gate)
        ELSE IF version # None /\ version_info = None
             THEN Answer("version_not_found")
        ELSE IF ~LocalStorage_download_file(storage, s3_key).success
             THEN Answer("storage_failure")
        ELSE Answer("ok")

\* GET /files/preview/<file_id>
serve_preview_result(user_id, file_id) ==
    LET gate == read_gate(user_id, file_id)
    IN  IF gate # "ok" THEN Answer(gate)
        ELSE IF files[file_id].s3_key \notin DOMAIN storage
             THEN Answer("not_found_on_server")
        ELSE Answer("ok")

\* Mutant: the metadata is written before the permission check.
edit_file_result_late_gate(user_id, file_id, form, new_file, fault) ==
    LET file_info == get_file_by_id(files, file_id)
        upd == update_file(files, file_id,
                   [metadata |-> metadata_from_form(form)])
    IN  IF file_info = None THEN Answer("not_found")
        ELSE IF ~permitted(Get(file_info), user_id, "write")
        THEN Result("denied", upd.files, versions, storage)
        ELSE Result("ok", upd.files, versions, storage)

\* POST /files/<file_id>/edit; new_file is optional: None, or
\* Some([name, data]) when the form carries a file.
edit_file_result(user_id, file_id, form, new_file, fault) ==
    LET file_info == get_file_by_id(files, file_id)
    IN  IF file_info = None THEN Answer("not_found")
        ELSE IF ~permitted(Get(file_info), user_id, "write")
        THEN Answer("denied")
        ELSE
        LET upd == update_file(files, file_id,
                       [metadata |-> metadata_from_form(form)])
        IN  IF new_file = None
            THEN Result("ok", upd.files, versions, storage)
            ELSE
            LET filename == secure_filename(Get(new_file).name)
                data == Get(new_file).data
                up == LocalStorage_upload_file(storage, data,
                          user_path(user_id, filename), fault)
            IN  IF ~up.success
                THEN Result("storage_failure", upd.files, versions,
                            up.storage)
                ELSE
                LET av == add_new_version(upd.files, versions, file_id,
                              user_id, up.value, Len(data))
                IN  Result(IF av.ret = None THEN "version_failed" ELSE "ok",
                           av.files, av.versions, up.storage)

\* GET /files/search?query=...
search_files_result(user_id, query) ==
    IF query = <<>> THEN Listing({})
    ELSE Listing(File_search_files(files, query, Some(user_id)))

\* GET /dashboard
dashboard_result(user_id) == Listing(get_user_files(files, user_id))

\* Mutant: the sharing update is gated like an edit, on the write list.
share_file_result_by_writers(user_id, file_id, read_users, write_users, delete_users) ==
    LET file_info == get_file_by_id(files, file_id)
    IN  IF file_info = None THEN Answer("not_found")
        ELSE IF ~permitted(Get(file_info), user_id, "write")
        THEN Answer("denied")
        ELSE
        LET permissions ==
                [ owner |-> user_id,
                  read |-> ensure_owner(read_users, user_id),
                  write |-> ensure_owner(write_users, user_id),
                  delete |-> ensure_owner(delete_users, user_id) ]
        IN  Result("ok",
                   update_file(files, file_id,
                               [permissions |-> permissions]).files,
                   versions, storage)

\* POST /files/<file_id>/share
share_file_result(user_id, file_id, read_users, write_users, delete_users) ==
    LET file_info == get_file_by_id(files, file_id)
    IN  IF file_info = None THEN Answer("not_found")
        ELSE IF Get(file_info).user_id # user_id THEN Answer("denied")
        ELSE
        LET permissions ==
                [ owner |-> user_id,
                  read |-> ensure_owner(read_users, user_id),
                  write |-> ensure_owner(write_users, user_id),
                  delete |-> ensure_owner(delete_users, user_id) ]
        IN  Result("ok",
                   update_file(files, file_id,
                               [permissions |-> permissions]).files,
                   versions, storage)

\* POST /files/<file_id>/delete
delete_file_result(user_id, file_id) ==
    LET file_info == get_file_by_id(files, file_id)
    IN  IF file_info = None THEN Answer("not_found")
        ELSE IF ~permitted(Get(file_info), user_id, "delete")
        THEN Answer("denied")
        ELSE Result("ok", soft_delete(files, file_id), versions, storage)

\* Mutant: the restore sets current_version and leaves s3_key as it was.
restore_version_result_keeps_key(user_id, file_id, version) ==
    LET file_info == get_file_by_id(files, file_id)
        version_info == get_file_version(versions, file_id, version)
    IN  IF file_info = None THEN Answer("not_found")
        ELSE IF ~permitted(Get(file_info), user_id, "write")
        THEN Answer("denied")
        ELSE IF version_info = None THEN Answer("version_not_found")
        ELSE
        LET upd == update_file(files, file_id, [current_version |-> version])
        IN  Result("restore_error", upd.files, versions, storage)

\* POST /files/<file_id>/restore/<int:version>.  The handler tests what
\* update_file returned: a true value is answered with the success flash,
\* anything else with 'Error restoring version'.
restore_version_result(user_id, file_id, version) ==
    LET file_info == get_file_by_id(files, file_id)
        version_info == get_file_version(versions, file_id, version)
    IN  IF file_info = None THEN Answer("not_found")
        ELSE IF ~permitted(Get(file_info), user_id, "write")
        THEN Answer("denied")
        ELSE IF version_info = None THEN Answer("version_not_found")
        ELSE
        LET upd == update_file(files, file_id,
                       [ s3_key |-> Get(version_info).s3_key,
                         current_version |-> version ])
        IN  Result(IF upd.ret # None THEN "restored" ELSE "restore_error",
                   upd.files, versions, storage)

\* A request served from start to end: the state becomes what the handler
\* leaves.
Serve(result) ==
    /\ files' = result.files
    /\ versions' = result.versions
    /\ storage' = result.storage
    /\ UNCHANGED <<procs, users>>

upload_file(user_id, name, file_data, form, fault) ==
    Serve(upload_file_result(user_id, name, file_data, form, fault))

view_file(user_id, file_id) == Serve(view_file_result(user_id, file_id))

download_file(user_id, file_id, version) ==
    Serve(download_file_result(user_id, file_id, version))

serve_preview(user_id, file_id) ==
    Serve(serve_preview_result(user_id, file_id))

edit_file(user_id, file_id, form, new_file, fault) ==
    Serve(edit_file_result(user_id, file_id, form, new_file, fault))

search_files(user_id, query) == Serve(search_files_result(user_id, query))

dashboard(user_id) == Serve(dashboard_result(user_id))

share_file(user_id, file_id, read_users, write_users, delete_users) ==
    Serve(share_file_result(user_id, file_id, read_users, write_users,
                            delete_users))

delete_file(user_id, file_id) == Serve(delete_file_result(user_id, file_id))

restore_version(user_id, file_id, version) ==
    Serve(restore_version_result(user_id, file_id, version))

\* ------------------------------------------------------------ specification

\* A request in flight: the handler (op), the statement it has reached (pc),
\* and the handler's local variables.
Request(op, pc, user_id, file_id, upload, form) ==
    [ op |-> op, pc |-> pc, user_id |-> user_id, file_id |-> file_id,
      upload |-> upload, form |-> form,
      s3_key |-> None, new_version |-> None, version |-> None,
      version_info |-> None, permissions |-> None ]

Idle == Request("idle", "idle", None, None, None, None)

\* The users collection as the file handlers find it (they never write it):
\* u1 registered under the username "admin".
users_collection ==
    << [_id |-> "u1", username |-> "admin", email |-> "a@x",
         password_hash |-> <<"bcrypt", "p">>],
       [_id |-> "u2", username |-> "bob", email |-> "b@x",
         password_hash |-> <<"bcrypt", "p">>] >>

Init ==
    /\ files = <<>>
    /\ versions = <<>>
    /\ storage = [p \in {} |-> <<>>]
    /\ procs = [p \in Procs |-> Idle]
    /\ users = users_collection

NewFiles == {None} \cup { Some(up) : up \in Uploads }

Versions == 1..MaxVersions

Upload ==
    /\ Len(files) < MaxFiles
    /\ \E u \in Users, up \in Uploads, m \in Forms, x \in UploadFaults :
           upload_file(u, up.name, up.data, m, x)

Read ==
    \E u \in Users, f \in 1..MaxFiles :
        \/ view_file(u, f)
        \/ \E v \in {None} \cup { Some(n) : n \in Versions } :
               download_file(u, f, v)
        \/ serve_preview(u, f)

Search ==
    \E u \in Users :
        \/ \E q \in Queries \cup {<<>>} : search_files(u, q)
        \/ dashboard(u)

Edit ==
    \E u \in Users, f \in 1..MaxFiles, m \in Forms, nf \in NewFiles,
       x \in UploadFaults :
        /\ nf # None =>
               Cardinality(get_file_versions(versions, f)) < MaxVersions
        /\ edit_file(u, f, m, nf, x)

Share ==
    \E u \in Users, f \in 1..MaxFiles, s \in ShareForms :
        share_file(u, f, s.read, s.write, s.delete)

Delete ==
    \E u \in Users, f \in 1..MaxFiles : delete_file(u, f)

Restore ==
    \E u \in Users, f \in 1..MaxFiles, v \in Versions :
        restore_version(u, f, v)

\* Requests served one at a time, without restore_version.
NextNoRestore == Upload \/ Read \/ Search \/ Edit \/ Share \/ Delete

\* Requests served one at a time.
Next == NextNoRestore \/ Restore

Spec == Init /\ [][Next]_vars

SpecNoRestore == Init /\ [][NextNoRestore]_vars

\* ------------------------------------------------------------ API handlers

\* User.get_user_by_username: find_one returns the first match, or None.
get_user_by_username(username) ==
    LET hits == { i \in DOMAIN users : users[i].username = username }
    IN  IF hits = {} THEN None
        ELSE Some(users[CHOOSE i \in hits : \A j \in hits : i <= j])

\* Authorization headers: absent, blank, and two different tokens.
Tokens == { <<>>, <<" ">>, <<"t", "1">>, <<"t", "2">> }

\* validate_token: bool(token and token.strip())
validate_token(token) == \E i \in DOMAIN token : token[i] # " "

\* get_user_from_token: the user named "admin", whatever the token.
get_user_from_token(token) == get_user_by_username("admin")

\* api_auth_required: request.user, or None when the wrapper answers 401.
api_auth_required(token) ==
    IF ~validate_token(token) THEN None ELSE get_user_from_token(token)

\* allowed_file
allowed_file(filename) ==
    Contains(filename, ".") /\ file_ext(filename) \in ALLOWED_EXTENSIONS

\* Bodies of PUT /api/files/<file_id>: a JSON document with or without a
\* "metadata" member, or a multipart form carrying a file.  The metadata
\* dictionaries sent are the ones the web forms produce.
ApiMetadata == { metadata_from_form(m) : m \in Forms }

\* The parts an API client uploads: file.content_length is the part's own
\* Content-Length header, which a client may leave out (0).
ApiUploads ==
    UNION { { [name |-> up.name, data |-> up.data, content_length |-> n] :
                  n \in {0, Len(up.data)} } : up \in Uploads }

PutBodies ==
    { [kind |-> "json", metadata |-> md, file |-> None] :
          md \in {None} \cup { Some(x) : x \in ApiMetadata } }
    \cup { [kind |-> "multipart", metadata |-> None, file |-> Some(up)] :
               up \in ApiUploads }

\* request.json: the parsed document, or None when the request is not JSON
\* (the property raises, or yields None and the .get on it raises).
request_json(body) == IF body.kind = "json" THEN Some(body) ELSE None

\* request.files: parsed from multipart bodies only.
request_files(body) == IF body.kind = "multipart" THEN body.file ELSE None

\* The I/O errors an API upload meets: none, one before the file is opened,
\* and one after open(..., 'wb') has truncated it.
ApiUploadFaults == {"none", "open", "write"}

\* GET /api/files/search
FileSearchAPI_get_result(token, query) ==
    LET user == api_auth_required(token)
    IN  IF user = None THEN Answer("unauthenticated")
        ELSE Listing(File_search_files(files, query, Some(Get(user)._id)))

\* The lookup, permission check, version lookup and download that
\* FileRetrieveAPI.get and FileWithMetadataAPI.get share.
api_retrieve(user_id, file_id, version) ==
    LET file_info == get_file_by_id(files, file_id)
        version_info == IF version = None THEN None
                        ELSE get_file_version(versions, file_id, Get(version))
        s3_key == IF version = None THEN Get(file_info).s3_key
                  ELSE Get(version_info).s3_key
    IN  IF file_info = None THEN "not_found"
        ELSE IF ~permitted(Get(file_info), user_id, "read") THEN "denied"
        ELSE IF version # None /\ version_info = None
             THEN "version_not_found"
        ELSE IF ~LocalStorage_download_file(storage, s3_key).success
             THEN "storage_failure"
        ELSE "ok"

\* GET /api/files/<file_id>[?version=n]
FileRetrieveAPI_get_result(token, file_id, version) ==
    LET user == api_auth_required(token)
    IN  IF user = None THEN Answer("unauthenticated")
        ELSE Answer(api_retrieve(Get(user)._id, file_id, version))

\* The s3_key the two retrieving handlers read: the document's, or the
\* requested version's.
api_s3_key(file_id, version) ==
    IF version = None THEN files[file_id].s3_key
    ELSE Get(get_file_version(versions, file_id, Get(version))).s3_key

\* GET /api/files/<file_id>/with-metadata[?version=n]: after the download
\* the handler asks for a presigned URL of the same path.
FileWithMetadataAPI_get_result(token, file_id, version) ==
    LET user == api_auth_required(token)
        status == api_retrieve(Get(user)._id, file_id, version)
    IN  IF user = None THEN Answer("unauthenticated")
        ELSE IF status # "ok" THEN Answer(status)
        ELSE IF ~LocalStorage_generate_presigned_url(storage,
                     api_s3_key(file_id, version)).success
             THEN Answer("storage_failure")
        ELSE Answer("ok")

\* PUT /api/files/<file_id>
FileModifyAPI_put_result(token, file_id, body, fault) ==
    LET user == api_auth_required(token)
        user_id == Get(user)._id
        file_info == get_file_by_id(files, file_id)
        json == request_json(body)
        file == request_files(body)
    IN  IF user = None THEN Answer("unauthenticated")
        ELSE IF file_info = None THEN Answer("not_found")
        ELSE IF ~permitted(Get(file_info), user_id, "write")
        THEN Answer("denied")
        ELSE IF json = None THEN Answer("server_error")
        ELSE
        LET fs == IF Get(json).metadata # None
                  THEN update_file(files, file_id,
                           [metadata |-> Get(Get(json).metadata)]).files
                  ELSE files
        IN  IF file = None \/ ~allowed_file(Get(file).name)
            THEN Result("ok", fs, versions, storage)
            ELSE
            LET filename == secure_filename(Get(file).name)
                up == LocalStorage_upload_file(storage, Get(file).data,
                          user_path(user_id, filename), fault)
            IN  IF ~up.success
                THEN Result("storage_failure", fs, versions, up.storage)
                ELSE
                LET av == add_new_version(fs, versions, file_id, user_id,
                              up.value, Get(file).content_length)
                IN  Result(IF av.ret = None THEN "version_failed" ELSE "ok",
                           av.files, av.versions, up.storage)

\* POST /api/files
FileModifyAPI_post_result(token, file, metadata, fault) ==
    LET user == api_auth_required(token)
        user_id == Get(user)._id
    IN  IF user = None THEN Answer("unauthenticated")
        ELSE IF file.name = <<>> \/ ~allowed_file(file.name)
        THEN Answer("validation_error")
        ELSE
        LET filename == secure_filename(file.name)
            up == LocalStorage_upload_file(storage, file.data,
                      user_path(user_id, filename), fault)
        IN  IF ~up.success
            THEN Result("storage_failure", files, versions, up.storage)
            ELSE LET cr == create_file(files, versions, user_id, filename,
                               up.value, file_ext(filename),
                               file.content_length, metadata)
                 IN  Result("ok", cr.files, cr.versions, up.storage)

FileSearchAPI_get(token, query) ==
    Serve(FileSearchAPI_get_result(token, query))

FileRetrieveAPI_get(token, file_id, version) ==
    Serve(FileRetrieveAPI_get_result(token, file_id, version))

FileWithMetadataAPI_get(token, file_id, version) ==
    Serve(FileWithMetadataAPI_get_result(token, file_id, version))

FileModifyAPI_put(token, file_id, body, fault) ==
    Serve(FileModifyAPI_put_result(token, file_id, body, fault))

FileModifyAPI_post(token, file, metadata, fault) ==
    Serve(FileModifyAPI_post_result(token, file, metadata, fault))

ApiSearch ==
    \E t \in Tokens, q \in Queries \cup {<<>>} : FileSearchAPI_get(t, q)

ApiRead ==
    \E t \in Tokens, f \in 1..MaxFiles,
       v \in {None} \cup { Some(n) : n \in Versions } :
        \/ FileRetrieveAPI_get(t, f, v)
        \/ FileWithMetadataAPI_get(t, f, v)

ApiPut ==
    \E t \in Tokens, f \in 1..MaxFiles, b \in PutBodies,
       x \in UploadFaults :
        FileModifyAPI_put(t, f, b, x)

ApiPost ==
    /\ Len(files) < MaxFiles
    /\ \E t \in Tokens, up \in ApiUploads, md \in ApiMetadata,
          x \in ApiUploadFaults :
           FileModifyAPI_post(t, up, md, x)

\* The web and the API requests, served one at a time.
NextApi == Next \/ ApiSearch \/ ApiRead \/ ApiPut \/ ApiPost

SpecApi == Init /\ [][NextApi]_vars

\* ------------------------------------------------- the adapter on its own
\*
\* The four operations of LocalStorage called directly, on any path: the
\* paths the handlers use and the directories above them.

StorageFiles ==
    { user_path(u, secure_filename(up.name)) : u \in Users, up \in Uploads }

StoragePaths == StorageFiles \cup UNION { Prefixes(p) : p \in StorageFiles }

StorageBytes == { up.data : up \in Uploads } \cup { <<>> }

s3_storage_upload_file(file_data, file_path, fault) ==
    /\ storage' = LocalStorage_upload_file(storage, file_data, file_path,
                                           fault).storage
    /\ UNCHANGED <<files, versions, procs, users>>

s3_storage_download_file(file_path) ==
    /\ LocalStorage_download_file(storage, file_path).success \in BOOLEAN
    /\ UNCHANGED vars

s3_storage_delete_file(file_path) ==
    /\ storage' = LocalStorage_delete_file(storage, file_path).storage
    /\ UNCHANGED <<files, versions, procs, users>>

s3_storage_generate_presigned_url(file_path) ==
    /\ LocalStorage_generate_presigned_url(storage, file_path).success
           \in BOOLEAN
    /\ UNCHANGED vars

NextStorage ==
    \E file_path \in StoragePaths :
        \/ \E file_data \in StorageBytes, fault \in ApiUploadFaults :
               s3_storage_upload_file(file_data, file_path, fault)
        \/ s3_storage_download_file(file_path)
        \/ s3_storage_delete_file(file_path)
        \/ s3_storage_generate_presigned_url(file_path)

SpecStorage == Init /\ [][NextStorage]_vars

\* ------------------------------------------------- interleaved requests
\*
\* The same handlers, one database or storage call per step, for NumProcs
\* requests running at once.  Each step is one call of the handler p is in;
\* the handler's locals are kept in procs[p].

\* Inputs of the interleaved requests.
ConcUploads == { up \in Uploads : secure_filename(up.name) = <<"A", ".", "t", "x", "t">> }
ConcForm == CHOOSE m \in Forms : m.title # <<>>
ConcShareForms == { s \in ShareForms : s.write = {} /\ s.delete = {} }

InFlight(op) == { p \in Procs : procs[p].op = op }

Finish(p) == procs' = [procs EXCEPT ![p] = Idle]

Goto(p, pc) == procs' = [procs EXCEPT ![p].pc = pc]

\* upload_file: the extension check and s3_storage.upload_file.
upload_put(p, user_id, up) ==
    /\ procs[p].op = "idle"
    /\ Len(files) + Cardinality(InFlight("upload")) < MaxFiles
    /\ UNCHANGED <<files, versions, users>>
    /\ IF Contains(up.name, ".") /\ file_ext(up.name) \notin ALLOWED_EXTENSIONS
       THEN UNCHANGED <<storage, procs>>
       ELSE LET filename == secure_filename(up.name)
                put == LocalStorage_upload_file(storage, up.data,
                           user_path(user_id, filename), "none")
            IN  /\ storage' = put.storage
                /\ procs' = [procs EXCEPT ![p] =
                       [Request("upload", "insert_file", Some(user_id), None,
                                Some([name |-> filename, data |-> up.data]),
                                Some(ConcForm))
                        EXCEPT !.s3_key = Some(put.value)]]

\* File.create_file: files_collection.insert_one(file_doc)
create_insert_file(p) ==
    /\ procs[p].op = "upload" /\ procs[p].pc = "insert_file"
    /\ LET r == procs[p]
           filename == Get(r.upload).name
       IN  /\ files' = insert_file(files,
                  file_doc(Get(r.user_id), filename, Get(r.s3_key),
                           file_ext(filename), Len(Get(r.upload).data),
                           metadata_from_form(Get(r.form))))
           /\ procs' = [procs EXCEPT ![p].pc = "insert_version",
                                     ![p].file_id = Some(Len(files) + 1)]
    /\ UNCHANGED <<versions, storage, users>>

\* File.create_file: file_versions_collection.insert_one(version_doc)
create_insert_version(p) ==
    /\ procs[p].op = "upload" /\ procs[p].pc = "insert_version"
    /\ LET r == procs[p]
       IN  versions' = insert_version(versions,
               version_doc(Get(r.file_id), 1, Get(r.s3_key), Get(r.user_id),
                           Len(Get(r.upload).data)))
    /\ Finish(p)
    /\ UNCHANGED <<files, storage, users>>

\* edit_file: File.get_file_by_id and the permission check.
edit_load(p, user_id, file_id, up) ==
    /\ procs[p].op = "idle"
    /\ Cardinality(get_file_versions(versions, file_id))
         + Cardinality({ q \in InFlight("edit") :
                            procs[q].file_id = Some(file_id)
                            /\ procs[q].pc # "add_update" })
         < MaxVersions
    /\ LET file_info == get_file_by_id(files, file_id)
       IN  IF file_info = None
              \/ ~permitted(Get(file_info), user_id, "write")
           THEN UNCHANGED procs
           ELSE procs' = [procs EXCEPT ![p] =
                    Request("edit", "update_file", Some(user_id), Some(file_id),
                            Some(up), Some(ConcForm))]
    /\ UNCHANGED <<files, versions, storage, users>>

\* edit_file: File.update_file(file_id, {'metadata': metadata})
edit_update_metadata(p) ==
    /\ procs[p].op = "edit" /\ procs[p].pc = "update_file"
    /\ files' = update_file(files, Get(procs[p].file_id),
                    [metadata |-> metadata_from_form(Get(procs[p].form))]).files
    /\ Goto(p, "upload")
    /\ UNCHANGED <<versions, storage, users>>

\* edit_file: s3_storage.upload_file(file, file_path)
edit_put(p) ==
    /\ procs[p].op = "edit" /\ procs[p].pc = "upload"
    /\ LET r == procs[p]
           put == LocalStorage_upload_file(storage, Get(r.upload).data,
                      user_path(Get(r.user_id),
                                secure_filename(Get(r.upload).name)),
                      "none")
       IN  /\ storage' = put.storage
           /\ procs' = [procs EXCEPT ![p].pc = "add_get",
                                     ![p].s3_key = Some(put.value)]
    /\ UNCHANGED <<files, versions, users>>


\* Mutant: the result of get_file_by_id is not tested and the document is
\* read whether soft-deleted or not.
add_get_unchecked(p) ==
    /\ procs[p].op = "edit" /\ procs[p].pc = "add_get"
    /\ procs' = [procs EXCEPT
           ![p].pc = "add_insert",
           ![p].new_version =
               Some(next_version_number(files[Get(procs[p].file_id)]))]
    /\ UNCHANGED <<files, versions, storage, users>>

\* File.add_new_version: file_info = File.get_file_by_id(file_id) and
\* new_version = file_info["current_version"] + 1
add_get(p) ==
    /\ procs[p].op = "edit" /\ procs[p].pc = "add_get"
    /\ LET file_info == get_file_by_id(files, Get(procs[p].file_id))
       IN  IF file_info = None
           THEN Finish(p)
           ELSE procs' = [procs EXCEPT
                    ![p].pc = "add_insert",
                    ![p].new_version =
                        Some(next_version_number(Get(file_info)))]
    /\ UNCHANGED <<files, versions, storage, users>>

\* Mutant: the insert is skipped and the handler goes on to the update.
add_insert_skipped(p) ==
    /\ procs[p].op = "edit" /\ procs[p].pc = "add_insert"
    /\ Goto(p, "add_update")
    /\ UNCHANGED <<files, versions, storage, users>>

\* File.add_new_version: file_versions_collection.insert_one(version_doc)
add_insert(p) ==
    /\ procs[p].op = "edit" /\ procs[p].pc = "add_insert"
    /\ LET r == procs[p]
       IN  versions' = insert_version(versions,
               version_doc(Get(r.file_id), Get(r.new_version),
                           Get(r.s3_key), Get(r.user_id),
                           Len(Get(r.upload).data)))
    /\ Goto(p, "add_update")
    /\ UNCHANGED <<files, storage, users>>

\* File.add_new_version: files_collection.update_one(...) and the return of
\* new_version, with which edit_file answers.
add_update(p) ==
    /\ procs[p].op = "edit" /\ procs[p].pc = "add_update"
    /\ LET r == procs[p]
       IN  files' = set_current_version(files, Get(r.file_id),
                        Get(r.new_version), Get(r.s3_key),
                        Len(Get(r.upload).data))
    /\ Finish(p)
    /\ UNCHANGED <<versions, storage, users>>

\* restore_version: File.get_file_by_id and the permission check.
restore_load(p, user_id, file_id, version) ==
    /\ procs[p].op = "idle"
    /\ LET file_info == get_file_by_id(files, file_id)
       IN  IF file_info = None
              \/ ~permitted(Get(file_info), user_id, "write")
           THEN UNCHANGED procs
           ELSE procs' = [procs EXCEPT ![p] =
                    [Request("restore", "get_version", Some(user_id),
                             Some(file_id), None, None)
                     EXCEPT !.version = Some(version)]]
    /\ UNCHANGED <<files, versions, storage, users>>

\* restore_version: File.get_file_version(file_id, version)
restore_get_version(p) ==
    /\ procs[p].op = "restore" /\ procs[p].pc = "get_version"
    /\ LET version_info == get_file_version(versions, Get(procs[p].file_id),
                                            Get(procs[p].version))
       IN  IF version_info = None
           THEN Finish(p)
           ELSE procs' = [procs EXCEPT ![p].pc = "update_file",
                                       ![p].version_info = version_info]
    /\ UNCHANGED <<files, versions, storage, users>>

\* restore_version: File.update_file(file_id, update_data)
restore_update(p) ==
    /\ procs[p].op = "restore" /\ procs[p].pc = "update_file"
    /\ LET r == procs[p]
       IN  files' = update_file(files, Get(r.file_id),
                        [ s3_key |-> Get(r.version_info).s3_key,
                          current_version |-> Get(r.version) ]).files
    /\ Finish(p)
    /\ UNCHANGED <<versions, storage, users>>

\* delete_file: File.get_file_by_id and the permission check.
delete_load(p, user_id, file_id) ==
    /\ procs[p].op = "idle"
    /\ LET file_info == get_file_by_id(files, file_id)
       IN  IF file_info = None
              \/ ~permitted(Get(file_info), user_id, "delete")
           THEN UNCHANGED procs
           ELSE procs' = [procs EXCEPT ![p] =
                    Request("delete", "soft_delete", Some(user_id), Some(file_id),
                            None, None)]
    /\ UNCHANGED <<files, versions, storage, users>>

\* delete_file: File.soft_delete(file_id)
delete_soft_delete(p) ==
    /\ procs[p].op = "delete" /\ procs[p].pc = "soft_delete"
    /\ files' = soft_delete(files, Get(procs[p].file_id))
    /\ Finish(p)
    /\ UNCHANGED <<versions, storage, users>>

\* share_file: File.get_file_by_id, the owner check and the permissions
\* dictionary built from the form.
share_load(p, user_id, file_id, read_users, write_users, delete_users) ==
    /\ procs[p].op = "idle"
    /\ LET file_info == get_file_by_id(files, file_id)
       IN  IF file_info = None \/ Get(file_info).user_id # user_id
           THEN UNCHANGED procs
           ELSE procs' = [procs EXCEPT ![p] =
                    [Request("share", "update_file", Some(user_id), Some(file_id),
                             None, None)
                     EXCEPT !.permissions = Some(
                        [ owner |-> user_id,
                          read |-> ensure_owner(read_users, user_id),
                          write |-> ensure_owner(write_users, user_id),
                          delete |-> ensure_owner(delete_users, user_id) ])]]
    /\ UNCHANGED <<files, versions, storage, users>>

\* share_file: File.update_file(file_id, {'permissions': permissions})
share_update(p) ==
    /\ procs[p].op = "share" /\ procs[p].pc = "update_file"
    /\ files' = update_file(files, Get(procs[p].file_id),
                    [permissions |-> Get(procs[p].permissions)]).files
    /\ Finish(p)
    /\ UNCHANGED <<versions, storage, users>>

ConcUpload ==
    \E p \in Procs :
        \/ \E u \in Users, up \in ConcUploads : upload_put(p, u, up)
        \/ create_insert_file(p)
        \/ create_insert_version(p)

ConcEdit ==
    \E p \in Procs :
        \/ \E u \in Users, f \in 1..MaxFiles, up \in ConcUploads :
               edit_load(p, u, f, up)
        \/ edit_update_metadata(p)
        \/ edit_put(p)
        \/ add_get(p)
        \/ add_insert(p)
        \/ add_update(p)

ConcRestore ==
    \E p \in Procs :
        \/ \E u \in Users, f \in 1..MaxFiles, v \in Versions :
               restore_load(p, u, f, v)
        \/ restore_get_version(p)
        \/ restore_update(p)

ConcDelete ==
    \E p \in Procs :
        \/ \E u \in Users, f \in 1..MaxFiles : delete_load(p, u, f)
        \/ delete_soft_delete(p)

ConcShare ==
    \E p \in Procs :
        \/ \E u \in Users, f \in 1..MaxFiles, s \in ConcShareForms :
               share_load(p, u, f, s.read, s.write, s.delete)
        \/ share_update(p)

\* Interleaved uploads, edits with a new file, and deletions.
NextConcAdd == ConcUpload \/ ConcEdit \/ ConcDelete

\* The same with interleaved restores and sharing updates.
NextConc == NextConcAdd \/ ConcRestore \/ ConcShare

SpecConcAdd == Init /\ [][NextConcAdd]_vars

SpecConc == Init /\ [][NextConc]_vars

\* ------------------------------------------------------------ user accounts
\*
\* register and edit_profile (app/auth/routes.py) over the users collection,
\* one database call per step.  Usernames, e-mail addresses and passwords are
\* plain strings here: the handlers only test them for emptiness and equality.

\* Size of the users collection at which register is no longer started.
MaxUsers == 4

\* ObjectIds of the users collection, in insertion order.
UserIds == <<"u1", "u2", "u3", "u4", "u5", "u6", "u7", "u8">>

\* hash_password / verify_password: a stored hash verifies the password it
\* was made from and no other.
hash_password(password) == <<"bcrypt", password>>

verify_password(stored_hash, provided_password) ==
    stored_hash = hash_password(provided_password)

\* The user document of User.create_user and its insert_one.
User_create_user(us, username, email, password_hash) ==
    Append(us, [_id |-> UserIds[Len(us) + 1], username |-> username,
                email |-> email, password_hash |-> password_hash])

\* find_one: the first match in insertion order, or None.
find_one(us, hits) ==
    IF hits = {} THEN None
    ELSE Some(us[CHOOSE i \in hits : \A j \in hits : i <= j])

User_get_user_by_id(us, user_id) ==
    find_one(us, { i \in DOMAIN us : us[i]._id = user_id })

User_get_user_by_email(us, email) ==
    find_one(us, { i \in DOMAIN us : us[i].email = email })

User_get_user_by_username(us, username) ==
    find_one(us, { i \in DOMAIN us : us[i].username = username })

\* User.update_user: update_one with "$set" on the document of that _id.
User_update_user(us, user_id, update_data) ==
    [ i \in DOMAIN us |->
        IF us[i]._id = user_id THEN SetFields(us[i], update_data)
        ELSE us[i] ]

\* Registration forms.
RegisterForms ==
    { [username |-> n, email |-> e, password |-> pw.password,
       confirm_password |-> pw.confirm_password] :
        n \in {"", "admin", "carol"}, e \in {"", "a@x", "c@x"},
        pw \in { [password |-> "", confirm_password |-> ""],
                 [password |-> "p", confirm_password |-> "p"],
                 [password |-> "p", confirm_password |-> "q"] } }

\* Profile forms.
ProfileForms ==
    { [email |-> e, current_password |-> pw.current_password,
       new_password |-> pw.new_password,
       confirm_password |-> pw.confirm_password] :
        e \in {"a@x", "c@x"},
        pw \in { [current_password |-> "", new_password |-> "",
                  confirm_password |-> ""],
                 [current_password |-> "p", new_password |-> "n",
                  confirm_password |-> "n"],
                 [current_password |-> "w", new_password |-> "n",
                  confirm_password |-> "n"],
                 [current_password |-> "p", new_password |-> "n",
                  confirm_password |-> "m"] } }

\* Sessions: the user_id a session carries; "u9" names no account.
SessionUsers == {"u1", "u3", "u9"}

\* register: the form checks that need no database call.
register_form_error(form) ==
    \/ form.username = ""
    \/ form.email = ""
    \/ form.password = ""
    \/ form.password # form.confirm_password

\* register: validation up to User.get_user_by_username(username).
register_check_username(p, form) ==
    /\ procs[p].op = "idle"
    /\ Len(users) + Cardinality(InFlight("register")) < MaxUsers
    /\ IF \/ register_form_error(form)
          \/ User_get_user_by_username(users, form.username) # None
       THEN UNCHANGED procs
       ELSE procs' = [procs EXCEPT ![p] =
                Request("register", "check_email", None, None, None,
                        Some(form))]
    /\ UNCHANGED <<files, versions, storage, users>>

\* register: User.get_user_by_email(email)
register_check_email(p) ==
    /\ procs[p].op = "register" /\ procs[p].pc = "check_email"
    /\ IF User_get_user_by_email(users, Get(procs[p].form).email) # None
       THEN Finish(p)
       ELSE Goto(p, "create_user")
    /\ UNCHANGED <<files, versions, storage, users>>

\* register: User.create_user(username, email, hashed_password)
register_create_user(p) ==
    /\ procs[p].op = "register" /\ procs[p].pc = "create_user"
    /\ LET form == Get(procs[p].form)
       IN  users' = User_create_user(users, form.username, form.email,
                                     hash_password(form.password))
    /\ Finish(p)
    /\ UNCHANGED <<files, versions, storage>>

\* edit_profile: the password part of the validation; "" when no password
\* change is asked for.
password_error(user, form) ==
    /\ form.new_password # ""
    /\ \/ form.current_password = ""
       \/ ~verify_password(user.password_hash, form.current_password)
       \/ form.new_password # form.confirm_password

\* edit_profile: update_data, once no error was found.
update_data_of(user, form) ==
    LET no_change == [k \in {} |-> ""]
        with_email == IF form.email # user.email
                      THEN [k \in {"email"} |-> form.email]
                      ELSE no_change
    IN  IF form.new_password # ""
        THEN [k \in DOMAIN with_email \cup {"password_hash"} |->
                 IF k = "email" THEN form.email
                 ELSE hash_password(form.new_password)]
        ELSE with_email

\* edit_profile: get_current_user(), and the checks that follow it when the
\* e-mail address is not changed.
edit_profile_load(p, user_id, form) ==
    /\ procs[p].op = "idle"
    /\ LET found == User_get_user_by_id(users, user_id)
       IN  IF found = None
           THEN UNCHANGED procs
           ELSE LET user == Get(found)
                    locals == Some([form |-> form, user |-> user])
                IN  IF form.email # user.email
                    THEN procs' = [procs EXCEPT ![p] =
                             Request("edit_profile", "check_email",
                                     Some(user_id), None, None, locals)]
                    ELSE IF \/ password_error(user, form)
                            \/ DOMAIN update_data_of(user, form) = {}
                         THEN UNCHANGED procs
                         ELSE procs' = [procs EXCEPT ![p] =
                                  Request("edit_profile", "update_user",
                                          Some(user_id), None, None, locals)]
    /\ UNCHANGED <<files, versions, storage, users>>

\* edit_profile: User.get_user_by_email(email), then the password checks.
edit_profile_check_email(p) ==
    /\ procs[p].op = "edit_profile" /\ procs[p].pc = "check_email"
    /\ LET locals == Get(procs[p].form)
       IN  IF \/ User_get_user_by_email(users, locals.form.email) # None
              \/ password_error(locals.user, locals.form)
           THEN Finish(p)
           ELSE Goto(p, "update_user")
    /\ UNCHANGED <<files, versions, storage, users>>

\* edit_profile: User.update_user(user['_id'], update_data)
edit_profile_update_user(p) ==
    /\ procs[p].op = "edit_profile" /\ procs[p].pc = "update_user"
    /\ LET locals == Get(procs[p].form)
       IN  users' = User_update_user(users, locals.user._id,
                        update_data_of(locals.user, locals.form))
    /\ Finish(p)
    /\ UNCHANGED <<files, versions, storage>>

AuthRegister ==
    \E p \in Procs :
        \/ \E form \in RegisterForms : register_check_username(p, form)
        \/ register_check_email(p)
        \/ register_create_user(p)

AuthEditProfile ==
    \E p \in Procs :
        \/ \E user_id \in SessionUsers, form \in ProfileForms :
               edit_profile_load(p, user_id, form)
        \/ edit_profile_check_email(p)
        \/ edit_profile_update_user(p)

NextAuth == AuthRegister \/ AuthEditProfile

SpecAuth == Init /\ [][NextAuth]_vars

\* ---------------------------------------------------------- Lambda handlers
\*
\* The two Lambda entry points (AISQL.py and lambda.py).  They keep no state
\* between invocations; an invocation in flight is kept in procs, with the
\* reply of the model call and the response the handler is about to return.
\* The CloudWatch, Oracle and Secrets Manager calls are taken to succeed.

\* What bedrock.invoke_model can give back: a text that is a SELECT
\* statement, a text that is not, a body without 'content', and a raised
\* ClientError.
NoMessage == "-"

LLMReplies ==
    { [kind |-> "text", text |-> <<"s", "e", "l", "e", "c", "t", " ", "1">>,
       message |-> NoMessage],
      [kind |-> "text", text |-> <<"n", "o">>, message |-> NoMessage],
      [kind |-> "no_content", text |-> <<>>, message |-> NoMessage],
      [kind |-> "raise", text |-> <<>>, message |-> "ThrottlingException"] }

\* str.upper() on one character of the replies' alphabet.
upper_char(c) ==
    CASE c = "s" -> "S"
      [] c = "e" -> "E"
      [] c = "l" -> "L"
      [] c = "c" -> "C"
      [] c = "t" -> "T"
      [] c = "n" -> "N"
      [] c = "o" -> "O"
      [] OTHER -> c

upper(s) == [i \in 1..Len(s) |-> upper_char(s[i])]

startswith(s, prefix) ==
    /\ Len(prefix) <= Len(s)
    /\ SubSeq(s, 1, Len(prefix)) = prefix

\* A Lambda response: the status code, the 'error' member of the body (None
\* when the body has none) and the text the body carries otherwise.
Response(statusCode, error, text) ==
    [statusCode |-> statusCode, error |-> error, text |-> text]

\* AISQL.convert_to_sql: the generated SQL, or None.  Every exception (the
\* call raising, the KeyError on a body without 'content') ends in the
\* except branch, which prints the error and returns None.
convert_to_sql(reply) ==
    IF reply.kind # "text" THEN None
    ELSE IF ~startswith(upper(reply.text), <<"S", "E", "L", "E", "C", "T">>)
    THEN None
    ELSE Some(reply.text)

\* AISQL.lambda_handler, up to the model call: the response when the query
\* is missing, or None.
AISQL_early_response(query) ==
    IF query = <<>>
    THEN Some(Response(400, Some(<<"Query parameter is required">>), <<>>))
    ELSE None

\* AISQL.lambda_handler, from the model call on.
AISQL_lambda_handler_result(query, reply) ==
    LET sql_query == convert_to_sql(reply)
    IN  IF sql_query = None
        THEN Response(500, Some(<<"Failed to generate SQL query">>), <<>>)
        ELSE Response(200, None, Get(sql_query))

\* lambda.analyze_with_bedrock: the analysis text; the except branch returns
\* the error as the text.
analyze_with_bedrock(reply) ==
    IF reply.kind = "raise"
    THEN <<"Error performing analysis: ", reply.message>>
    ELSE IF reply.kind = "no_content" THEN <<"No analysis available">>
    ELSE reply.text

\* lambda.lambda_handler, up to the model call: the widget description, or
\* None.
metrics_early_response(event) ==
    IF event = "describe"
    THEN Some(Response(200, None, <<"Focused AWS Resource Analyzer">>))
    ELSE None

\* lambda.handle_focused_analysis and the display branch of
\* handle_widget_request, from the model call on.
handle_focused_analysis_result(event, reply) ==
    Response(200, None, analyze_with_bedrock(reply))

\* Invocation events: the 'query' of the NL-to-SQL handler, and the kind of
\* event the metrics handler is given.
SqlQueries == { <<>>, <<"q">> }

MetricsEvents == { "describe", "widget", "analysis" }

Invocation(handler, event, reply, response) ==
    [handler |-> handler, event |-> event, reply |-> reply,
     response |-> response]

\* An invocation arrives and runs up to bedrock.invoke_model.
AISQL_lambda_handler(p, query) ==
    /\ procs[p].op = "idle"
    /\ LET early == AISQL_early_response(query)
       IN  procs' = [procs EXCEPT ![p] =
               Request("lambda", IF early = None THEN "invoke_model"
                                 ELSE "return",
                       None, None, None,
                       Some(Invocation("AISQL", query, None, early)))]
    /\ UNCHANGED <<files, versions, storage, users>>

lambda_handler(p, event) ==
    /\ procs[p].op = "idle"
    /\ LET early == metrics_early_response(event)
       IN  procs' = [procs EXCEPT ![p] =
               Request("lambda", IF early = None THEN "invoke_model"
                                 ELSE "return",
                       None, None, None,
                       Some(Invocation("metrics", event, None, early)))]
    /\ UNCHANGED <<files, versions, storage, users>>

\* bedrock.invoke_model answers, and the handler builds its response.
invoke_model(p, reply) ==
    /\ procs[p].op = "lambda" /\ procs[p].pc = "invoke_model"
    /\ LET inv == Get(procs[p].form)
           response == IF inv.handler = "AISQL"
                       THEN AISQL_lambda_handler_result(inv.event, reply)
                       ELSE handle_focused_analysis_result(inv.event, reply)
       IN  procs' = [procs EXCEPT ![p].pc = "return",
                                  ![p].form = Some(Invocation(inv.handler,
                                      inv.event, Some(reply),
                                      Some(response)))]
    /\ UNCHANGED <<files, versions, storage, users>>

\* The handler returns its response.
lambda_return(p) ==
    /\ procs[p].op = "lambda" /\ procs[p].pc = "return"
    /\ Finish(p)
    /\ UNCHANGED <<files, versions, storage, users>>

NextLambda ==
    \E p \in Procs :
        \/ \E query \in SqlQueries : AISQL_lambda_handler(p, query)
        \/ \E event \in MetricsEvents : lambda_handler(p, event)
        \/ \E reply \in LLMReplies : invoke_model(p, reply)
        \/ lambda_return(p)

SpecLambda == Init /\ [][NextLambda]_vars

\* ----------------------------------------------------------------- claims

\* The version numbers of a file's rows, and the highest of them.
VersionNumbers(vs, f) ==
    { vs[i].version_number : i \in get_file_versions(vs, f) }

Highest(S) == CHOOSE n \in S : \A m \in S : m <= n

\* The record's current_version is the number of one of the file's rows.
HasCurrentRow(fs, vs, f) ==
    fs[f].current_version \in VersionNumbers(vs, f)

\* The record's current_version is the highest number among its rows.
CurrentIsHighest(fs, vs, f) ==
    /\ VersionNumbers(vs, f) # {}
    /\ fs[f].current_version = Highest(VersionNumbers(vs, f))

\* C1: with requests served one at a time and no restore, the version
\* numbers of a file's N rows are exactly 1..N, each once, and the
\* record's current_version is N.
C1_VersionsAreOneToN ==
    \A f \in DOMAIN files :
        LET rows == get_file_versions(versions, f)
            N == Cardinality(rows)
        IN  /\ VersionNumbers(versions, f) = 1..N
            /\ \A i, j \in rows :
                   versions[i].version_number = versions[j].version_number
                       => i = j
            /\ files[f].current_version = N

\* A file that has received two new versions after its upload.
C1_Witness ==
    \E f \in DOMAIN files :
        /\ Cardinality(get_file_versions(versions, f)) >= 3
        /\ files[f].current_version >= 3

\* C2: a row added to a file carries a version number strictly higher than
\* the number of every row the file already has (rows are never removed, so
\* these are all the numbers the file ever had), also after a restore.
C2_NumbersNeverReused ==
    [][ \A i \in (DOMAIN versions') \ (DOMAIN versions) :
            \A j \in get_file_versions(versions, versions'[i].file_id) :
                versions'[i].version_number > versions[j].version_number
      ]_vars

\* C3 as stated: in every reachable state the record's current_version is
\* the highest version number among the file's rows.
C3_CurrentAlwaysHighest ==
    \A f \in DOMAIN files : CurrentIsHighest(files, versions, f)

\* C3 as amended: current_version is always the number of one of the file's
\* rows; it is the highest one after createFile, and every request that is
\* not a restore_version of that file keeps it the highest if it was.
C3_CurrentIsARow ==
    [][ \A f \in DOMAIN files' :
            /\ HasCurrentRow(files', versions', f)
            /\ f \notin DOMAIN files => CurrentIsHighest(files', versions', f)
            /\ ( /\ f \in DOMAIN files
                 /\ CurrentIsHighest(files, versions, f)
                 /\ ~ \E u \in Users, v \in Versions :
                        restore_version(u, f, v) )
               => CurrentIsHighest(files', versions', f)
      ]_vars

\* A file restored to a version below its highest one.
C3_Witness ==
    \E f \in DOMAIN files :
        /\ HasCurrentRow(files, versions, f)
        /\ files[f].current_version < Highest(VersionNumbers(versions, f))

\* C4: restore_version by a permitted user of a version that exists sets
\* current_version to it and s3_key to the s3_key of a row with that number,
\* and leaves the version rows as they were.
C4_RestoreRepoints ==
    [][ \A u \in Users, f \in DOMAIN files, v \in Versions :
            ( /\ restore_version(u, f, v)
              /\ ~files[f].is_deleted
              /\ u = files[f].user_id \/ u \in files[f].permissions.write
              /\ v \in VersionNumbers(versions, f) )
            => /\ files'[f].current_version = v
               /\ \E i \in get_file_versions(versions, f) :
                      /\ versions[i].version_number = v
                      /\ versions[i].s3_key = files'[f].s3_key
               /\ versions' = versions
      ]_vars

\* A file pointing back at its first version while a later row, stored under
\* another path, is still there.
C4_Witness ==
    \E f \in DOMAIN files :
        /\ files[f].current_version = 1
        /\ \E i, j \in get_file_versions(versions, f) :
               /\ versions[i].version_number = 1
               /\ versions[i].s3_key = files[f].s3_key
               /\ versions[j].version_number > 1
               /\ versions[j].s3_key # files[f].s3_key

\* The upload that created f has returned: no request is between the two
\* inserts of create_file for it.
Created(f) ==
    ~ \E p \in Procs : /\ procs[p].op = "upload"
                       /\ procs[p].pc = "insert_version"
                       /\ procs[p].file_id = Some(f)

\* C5: while requests interleave, a created file's current_version is always
\* the number of a row that exists, and the step with which add_new_version
\* returns n leaves the record with current_version n and the s3_key of a
\* row numbered n.
C5_AppendNeverDangles ==
    [][ /\ \A f \in DOMAIN files' :
               Created(f)' => HasCurrentRow(files', versions', f)
        /\ \A p \in Procs :
               add_update(p) =>
                   LET f == Get(procs[p].file_id)
                       n == Get(procs[p].new_version)
                   IN  /\ files'[f].current_version = n
                       /\ files'[f].s3_key = Get(procs[p].s3_key)
                       /\ \E i \in get_file_versions(versions', f) :
                              /\ versions'[i].version_number = n
                              /\ versions'[i].s3_key = files'[f].s3_key
      ]_vars

\* An add_new_version between its insert and its update while another
\* request on the same file is in flight: the new row is written, and the
\* record still points at the row before it.
C5_Witness ==
    \E p, q \in Procs :
        /\ p # q
        /\ procs[p].op = "edit" /\ procs[p].pc = "add_update"
        /\ procs[q].op \in {"edit", "restore"}
        /\ procs[q].file_id = procs[p].file_id
        /\ Get(procs[p].new_version)
               \in VersionNumbers(versions, Get(procs[p].file_id))
        /\ files[Get(procs[p].file_id)].current_version
               # Get(procs[p].new_version)

\* C6: under interleaved add_new_version requests no two rows of a file
\* share a version number, the numbers are 1..N, and once no request is in
\* flight current_version is the number of rows.
C6_ConcurrentNumbersDistinct ==
    \A f \in DOMAIN files :
        LET rows == get_file_versions(versions, f)
        IN  /\ \A i, j \in rows :
                   versions[i].version_number = versions[j].version_number
                       => i = j
            /\ Created(f) =>
                   VersionNumbers(versions, f) = 1..Cardinality(rows)
            /\ (\A p \in Procs : procs[p].op = "idle") =>
                   files[f].current_version = Cardinality(rows)

\* C7: the owner of every file is in its read, write and delete sets.
C7_OwnerInAllSets ==
    \A f \in DOMAIN files :
        /\ files[f].user_id \in files[f].permissions.read
        /\ files[f].user_id \in files[f].permissions.write
        /\ files[f].user_id \in files[f].permissions.delete

\* A file whose owner submitted a sharing form naming only the other user:
\* the other user was added to write, and the owner is in read although
\* the form's read list was empty.
C7_Witness ==
    \E f \in DOMAIN files :
        /\ files[f].user_id = "u1"
        /\ files[f].permissions.write = {"u1", "u2"}
        /\ files[f].permissions.read = {"u1"}
        /\ files[f].permissions.delete = {"u1"}

\* The gate as the specification states it.
Member(f, u, action) ==
    u = files[f].user_id \/ u \in files[f].permissions[action]

\* C8: on a file that is not deleted, every gated handler turns the
\* requester away exactly when the requester is neither the owner nor in
\* the set of the handler's action: read for view, download and preview,
\* write for edit and restore, delete for delete.
C8_GateIsOwnerOrMember ==
    \A f \in DOMAIN files : \A u \in Users :
        ~files[f].is_deleted =>
            /\ view_file_result(u, f).status = "denied"
                   <=> ~Member(f, u, "read")
            /\ \A v \in {None} \cup { Some(n) : n \in Versions } :
                   download_file_result(u, f, v).status = "denied"
                       <=> ~Member(f, u, "read")
            /\ serve_preview_result(u, f).status = "denied"
                   <=> ~Member(f, u, "read")
            /\ \A m \in Forms, nf \in NewFiles, x \in UploadFaults :
                   edit_file_result(u, f, m, nf, x).status = "denied"
                       <=> ~Member(f, u, "write")
            /\ \A v \in Versions :
                   restore_version_result(u, f, v).status = "denied"
                       <=> ~Member(f, u, "write")
            /\ delete_file_result(u, f).status = "denied"
                   <=> ~Member(f, u, "delete")

\* A file shared read-only: the other user may view it and may neither edit
\* nor delete it, and the owner may do all three.
C8_Witness ==
    \E f \in DOMAIN files : \E u \in Users :
        /\ ~files[f].is_deleted
        /\ u # files[f].user_id
        /\ u \in files[f].permissions.read
        /\ u \notin files[f].permissions.write
        /\ u \notin files[f].permissions.delete
        /\ view_file_result(u, f).status = "ok"
        /\ delete_file_result(u, f).status = "denied"
        /\ delete_file_result(files[f].user_id, f).status = "ok"

\* No read returns f: not get_file_by_id, not a user's listing, not a
\* search with or without a user, and not the handlers built on them.
Hidden(fs, f) ==
    /\ get_file_by_id(fs, f) = None
    /\ \A u \in Users :
           /\ f \notin get_user_files(fs, u)
           /\ \A q \in Queries :
                  /\ f \notin File_search_files(fs, q, Some(u))
                  /\ f \notin File_search_files(fs, q, None)

\* C9: a soft-deleted file stays soft-deleted through every later step, and
\* in every state in which it is soft-deleted no read returns it.
C9_DeletedStaysHidden ==
    [][ /\ \A f \in DOMAIN files :
               files[f].is_deleted =>
                   f \in DOMAIN files' /\ files'[f].is_deleted
        /\ \A f \in DOMAIN files' :
               files'[f].is_deleted => Hidden(files', f)
      ]_vars

\* A soft-deleted file that a request which had passed its gate before the
\* deletion has written to afterwards: a restore that moved current_version
\* back.
C9_Witness ==
    \E f \in DOMAIN files :
        /\ files[f].is_deleted
        /\ \E n \in VersionNumbers(versions, f) :
               files[f].current_version < n

\* The match the specification states: the query is a substring, letter case
\* ignored, of the text.
IsSubstring(query, text) ==
    \E off \in 0..(Len(text) - Len(query)) :
        \A i \in 1..Len(query) : lower(query)[i] = lower(text)[off + i]

MatchesQuery(doc, query) ==
    \/ IsSubstring(query, doc.filename)
    \/ IsSubstring(query, doc.metadata.title)
    \/ IsSubstring(query, doc.metadata.description)
    \/ \E k \in 1..Len(doc.metadata.keywords) :
           IsSubstring(query, doc.metadata.keywords[k])

\* C10: every file the search handler lists for a query and a user matches
\* the query in its filename or in a metadata field.
C10_SearchResultsMatch ==
    \A u \in Users, q \in Queries :
        \A f \in search_files_result(u, q).listed :
            MatchesQuery(files[f], q)

\* u may read f: the file is not soft-deleted and u owns it or is in its
\* read list.
Readable(f, u) ==
    /\ ~files[f].is_deleted
    /\ u = files[f].user_id \/ u \in files[f].permissions.read

\* C11: every file File.search_files returns for a user, and every file the
\* web search and the API search list, is not soft-deleted and is owned by
\* or shared for reading with the user the search runs for (the session
\* user, or the user api_auth_required has put in request.user).
C11_SearchListsOnlyReadable ==
    \A q \in Queries \cup {<<>>} :
        /\ \A u \in Users :
               /\ \A f \in File_search_files(files, q, Some(u)) :
                      Readable(f, u)
               /\ \A f \in search_files_result(u, q).listed : Readable(f, u)
        /\ \A t \in Tokens :
               \A f \in FileSearchAPI_get_result(t, q).listed :
                   /\ api_auth_required(t) # None
                   /\ Readable(f, Get(api_auth_required(t))._id)

\* A file of u2 that u2 has not shared: the search of u2 lists it although
\* the query matches nothing in it, and neither the web search of u1 nor
\* the API search, which runs as u1, lists it.
C11_Witness ==
    \E f \in DOMAIN files :
        /\ files[f].user_id = "u2"
        /\ ~files[f].is_deleted
        /\ "u1" \notin files[f].permissions.read
        /\ regex_search(<<"a">>, files[f].filename)
        /\ f \in search_files_result("u2", <<"a">>).listed
        /\ f \notin search_files_result("u1", <<"a">>).listed
        /\ f \notin FileSearchAPI_get_result(<<"t", "1">>, <<"a">>).listed

\* C12: add_new_version for a file_id that get_file_by_id does not find
\* (absent or soft-deleted) returns None and leaves files and versions as
\* they were, both as the function is defined and in the step of an
\* interleaved edit whose file was soft-deleted after its permission check.
C12_AddVersionNotFound ==
    [][ /\ \A f \in 1..(MaxFiles + 1), u \in Users, up \in Uploads :
               get_file_by_id(files, f) = None =>
                   LET av == add_new_version(files, versions, f, u,
                                 user_path(u, secure_filename(up.name)),
                                 Len(up.data))
                   IN  /\ av.ret = None
                       /\ av.files = files
                       /\ av.versions = versions
        /\ \A p \in Procs :
               ( /\ add_get(p)
                 /\ get_file_by_id(files, Get(procs[p].file_id)) = None )
               => /\ files' = files
                  /\ versions' = versions
                  /\ procs'[p] = Idle
      ]_vars

\* An edit that has stored its new bytes and is about to call
\* add_new_version on a file another request has soft-deleted meanwhile.
C12_Witness ==
    \E p \in Procs :
        /\ procs[p].op = "edit" /\ procs[p].pc = "add_get"
        /\ Get(procs[p].file_id) \in DOMAIN files
        /\ files[Get(procs[p].file_id)].is_deleted
        /\ Get(procs[p].s3_key) \in DOMAIN storage

\* C13: restore_version by a permitted user for a number no row of the file
\* carries answers 'Version not found' and leaves the file documents, the
\* version rows and the stored bytes as they were.
C13_RestoreUnknownVersion ==
    \A f \in DOMAIN files : \A u \in Users, v \in Versions :
        ( /\ ~files[f].is_deleted
          /\ u = files[f].user_id \/ u \in files[f].permissions.write
          /\ v \notin VersionNumbers(versions, f) )
        => LET r == restore_version_result(u, f, v)
           IN  /\ r.status = "version_not_found"
               /\ r.files = files
               /\ r.versions = versions
               /\ r.storage = storage

\* A file with versions 1 and 2 only: restoring version 3 is answered with
\* 'Version not found', restoring version 2 is not.
C13_Witness ==
    \E f \in DOMAIN files :
        /\ ~files[f].is_deleted
        /\ VersionNumbers(versions, f) = {1, 2}
        /\ restore_version_result(files[f].user_id, f, 3).status
               = "version_not_found"
        /\ restore_version_result(files[f].user_id, f, 2).status
               # "version_not_found"

\* The handler turned the request away and wrote nothing.
Refused(r) ==
    /\ r.status = "denied"
    /\ r.files = files
    /\ r.versions = versions
    /\ r.storage = storage

\* C14: a request on a file that is not deleted, by a user who is neither
\* its owner nor in the list of the handler's action, is answered with
\* 'permission denied' and leaves file documents, version rows and stored
\* bytes as they were: view, download and preview (read), edit with or
\* without a new file and restore (write), delete (delete), and the API's
\* retrieve (read) and put (write) for the user in request.user; a user in
\* the read list is let through to view and download.
C14_GateBeforeOperation ==
    \A f \in DOMAIN files :
        ~files[f].is_deleted =>
            LET OptVersions == {None} \cup { Some(n) : n \in Versions }
            IN
            /\ \A u \in Users :
                   /\ ~Member(f, u, "read") =>
                          /\ Refused(view_file_result(u, f))
                          /\ Refused(serve_preview_result(u, f))
                          /\ \A v \in OptVersions :
                                 Refused(download_file_result(u, f, v))
                   /\ ~Member(f, u, "write") =>
                          /\ \A m \in Forms, nf \in NewFiles,
                                x \in UploadFaults :
                                 Refused(edit_file_result(u, f, m, nf, x))
                          /\ \A v \in Versions :
                                 Refused(restore_version_result(u, f, v))
                   /\ ~Member(f, u, "delete") =>
                          Refused(delete_file_result(u, f))
                   /\ Member(f, u, "read") =>
                          /\ view_file_result(u, f).status = "ok"
                          /\ download_file_result(u, f, None).status = "ok"
            /\ \A t \in Tokens :
                   api_auth_required(t) # None =>
                       LET u == Get(api_auth_required(t))._id
                       IN  /\ ~Member(f, u, "read") =>
                                  \A v \in OptVersions :
                                      /\ Refused(FileRetrieveAPI_get_result(
                                                     t, f, v))
                                      /\ Refused(
                                           FileWithMetadataAPI_get_result(
                                                     t, f, v))
                           /\ ~Member(f, u, "write") =>
                                  \A b \in PutBodies, x \in UploadFaults :
                                      Refused(FileModifyAPI_put_result(
                                                  t, f, b, x))

\* A file of u2 shared with u1 for reading only: u1 views and downloads it,
\* and u1's edit with a new file, restore and delete, and the API's put
\* (which runs as u1), are refused.
C14_Witness ==
    \E f \in DOMAIN files :
        /\ ~files[f].is_deleted
        /\ files[f].user_id = "u2"
        /\ "u1" \in files[f].permissions.read
        /\ "u1" \notin files[f].permissions.write
        /\ "u1" \notin files[f].permissions.delete
        /\ view_file_result("u1", f).status = "ok"
        /\ download_file_result("u1", f, None).status = "ok"
        /\ FileRetrieveAPI_get_result(<<"t", "1">>, f, None).status = "ok"
        /\ \E m \in Forms, nf \in NewFiles :
               /\ nf # None /\ m.title # <<>>
               /\ Refused(edit_file_result("u1", f, m, nf, "none"))
        /\ Refused(restore_version_result("u1", f, 1))
        /\ Refused(delete_file_result("u1", f))
        /\ \E b \in PutBodies :
               /\ b.metadata # None
               /\ Refused(FileModifyAPI_put_result(<<"t", "1">>, f, b, "none"))

\* The handler created a file document or a version row.
Created_by(r) == Len(r.files) > Len(files) \/ Len(r.versions) > Len(versions)

\* C15: an upload whose storage write fails is answered with the failure
\* and creates neither a file document nor a version row, on the web and
\* on the API; and an upload that creates them has stored the bytes under
\* the new document's s3_key.
C15_CreateAfterStorageWrite ==
    /\ \A u \in Users, up \in Uploads, m \in Forms, x \in ApiUploadFaults :
           LET r == upload_file_result(u, up.name, up.data, m, x)
           IN  /\ x # "none" =>
                      /\ r.status \in {"storage_failure", "validation_error"}
                      /\ r.files = files /\ r.versions = versions
               /\ Created_by(r) =>
                      /\ r.status = "ok"
                      /\ r.files[Len(r.files)].s3_key \in DOMAIN r.storage
                      /\ r.storage[r.files[Len(r.files)].s3_key] = up.data
    /\ \A t \in Tokens, up \in ApiUploads, md \in ApiMetadata,
          x \in ApiUploadFaults :
           LET r == FileModifyAPI_post_result(t, up, md, x)
           IN  /\ x # "none" =>
                      /\ r.status \in {"storage_failure", "validation_error",
                                       "unauthenticated"}
                      /\ r.files = files /\ r.versions = versions
               /\ Created_by(r) =>
                      /\ r.status = "ok"
                      /\ r.files[Len(r.files)].s3_key \in DOMAIN r.storage
                      /\ r.storage[r.files[Len(r.files)].s3_key] = up.data

\* An upload has failed after the adapter had opened the file: the path
\* holds no bytes, and there is no file document and no version row.
C15_Witness ==
    /\ files = <<>>
    /\ versions = <<>>
    /\ \E p \in DOMAIN storage : storage[p] = <<>>
    /\ \E up \in ApiUploads :
           FileModifyAPI_post_result(<<"t", "1">>, up,
               CHOOSE md \in ApiMetadata : TRUE, "write").status
               = "storage_failure"

\* C16: a delete request that goes through changes nothing but the
\* is_deleted flag of the one file document: its other fields, the other
\* documents, every version row and every stored byte stay as they were.
C16_SoftDeleteOnlyFlag ==
    [][ \A u \in Users, f \in DOMAIN files :
            ( /\ delete_file(u, f)
              /\ delete_file_result(u, f).status = "ok" )
            => /\ files' = [files EXCEPT ![f].is_deleted = TRUE]
               /\ versions' = versions
               /\ storage' = storage
      ]_vars

\* A soft-deleted file that still has its document, its two version rows
\* and the bytes of each of them.
C16_Witness ==
    \E f \in DOMAIN files :
        /\ files[f].is_deleted
        /\ Cardinality(get_file_versions(versions, f)) >= 2
        /\ \A i \in get_file_versions(versions, f) :
               /\ versions[i].s3_key \in DOMAIN storage
               /\ storage[versions[i].s3_key] # <<>>

\* C17: no step removes a version row or changes a field of one: every row
\* that exists before a step is the same row after it.
C17_VersionRowsAppendOnly ==
    [][ /\ Len(versions') >= Len(versions)
        /\ \A i \in DOMAIN versions : versions'[i] = versions[i]
      ]_vars

\* A file that has been given a new version, edited, shared, restored to
\* its first version and soft-deleted, with both of its rows in place.
C17_Witness ==
    \E f \in DOMAIN files :
        /\ files[f].is_deleted
        /\ files[f].current_version = 1
        /\ files[f].metadata.title # <<>>
        /\ files[f].permissions.read = Users
        /\ {1, 2} \subseteq VersionNumbers(versions, f)
        /\ \A p \in Procs : procs[p].op = "idle"

\* The step is an edit request that carries a new file for f: the one
\* handler that calls add_new_version.
AddVersionStep(f) ==
    \E u \in Users, m \in Forms, nf \in NewFiles, x \in UploadFaults :
        nf # None /\ edit_file(u, f, m, nf, x)

\* C18 as stated: every request that leaves a file's current_version
\* larger than it was is one that adds a version to that file.
C18_OnlyAddVersionAdvances ==
    [][ \A f \in DOMAIN files :
            files'[f].current_version > files[f].current_version
                => AddVersionStep(f)
      ]_vars

\* C18 as amended: every request that leaves a file's current_version
\* larger than it was is one that adds a version to that file, or a
\* restore_version to a number v above the current one that a row of the
\* file carries, which leaves it at v; the metadata edit, the sharing
\* update and the soft delete never raise it.
C18_AdvancesByAddOrRestore ==
    [][ \A f \in DOMAIN files :
            files'[f].current_version > files[f].current_version
                => \/ AddVersionStep(f)
                   \/ \E u \in Users, v \in Versions :
                          /\ restore_version(u, f, v)
                          /\ v \in VersionNumbers(versions, f)
                          /\ files'[f].current_version = v
      ]_vars

\* A file restored to its first version whose second version a permitted
\* user can restore again: that request raises current_version from 1 to 2
\* and adds no row.
C18_Witness ==
    \E f \in DOMAIN files :
        /\ files[f].current_version = 1
        /\ 2 \in VersionNumbers(versions, f)
        /\ LET r == restore_version_result(files[f].user_id, f, 2)
           IN  /\ r.files[f].current_version = 2
               /\ r.versions = versions

\* The request served by the step is an upload by user u, on the web or on
\* the API (where u is the user in request.user).
UploadStepBy(u) ==
    \/ \E up \in Uploads, m \in Forms, x \in UploadFaults :
           upload_file(u, up.name, up.data, m, x)
    \/ \E t \in Tokens, up \in ApiUploads, md \in ApiMetadata,
          x \in ApiUploadFaults :
           /\ api_auth_required(t) # None
           /\ Get(api_auth_required(t))._id = u
           /\ FileModifyAPI_post(t, up, md, x)

\* C19: the file document a request creates has current_version 1 and is
\* not soft-deleted; the file has exactly one version row, numbered 1, with
\* the document's s3_key and file_size; the request is an upload, and the
\* uploader is the document's user_id, the owner of its permission set and
\* a member of its read, write and delete lists.
C19_UploadCreatesVersionOne ==
    [][ \A f \in (DOMAIN files') \ (DOMAIN files) :
            LET doc == files'[f]
                rows == get_file_versions(versions', f)
            IN  /\ doc.current_version = 1
                /\ ~doc.is_deleted
                /\ Cardinality(rows) = 1
                /\ \A i \in rows :
                       /\ versions'[i].version_number = 1
                       /\ versions'[i].s3_key = doc.s3_key
                       /\ versions'[i].file_size = doc.file_size
                /\ doc.s3_key \in DOMAIN storage'
                /\ doc.permissions.owner = doc.user_id
                /\ doc.user_id \in doc.permissions.read
                /\ doc.user_id \in doc.permissions.write
                /\ doc.user_id \in doc.permissions.delete
                /\ UploadStepBy(doc.user_id)
      ]_vars

\* A file as an upload left it: one row, numbered 1, with the document's
\* s3_key and size, and permission lists that hold the uploader alone.
C19_Witness ==
    \E f \in DOMAIN files :
        /\ files[f].current_version = 1
        /\ ~files[f].is_deleted
        /\ files[f].permissions
               = [owner |-> files[f].user_id, read |-> {files[f].user_id},
                  write |-> {files[f].user_id}, delete |-> {files[f].user_id}]
        /\ \E i \in DOMAIN versions :
               /\ get_file_versions(versions, f) = {i}
               /\ versions[i].version_number = 1
               /\ versions[i].s3_key = files[f].s3_key
               /\ versions[i].file_size = files[f].file_size
               /\ versions[i].file_size = Len(storage[files[f].s3_key])

\* Nothing is stored at the path: it does not exist, or it is one of the
\* directories the adapter made on the way to a file.
HoldsNoBytes(path) == ~is_file(storage, path)

\* C20: on a path that holds no bytes download_file, delete_file and
\* generate_presigned_url each return failure and leave the storage tree
\* as it was, and an upload_file that returns success is followed by a
\* download_file of the same path that returns success with the same bytes.
C20_AdapterOutcomes ==
    \A path \in StoragePaths :
        /\ HoldsNoBytes(path) =>
               /\ ~LocalStorage_download_file(storage, path).success
               /\ ~LocalStorage_delete_file(storage, path).success
               /\ LocalStorage_delete_file(storage, path).storage = storage
               /\ ~LocalStorage_generate_presigned_url(storage, path).success
        /\ \A bytes \in StorageBytes :
               LET put == LocalStorage_upload_file(storage, bytes, path,
                                                   "none")
               IN  put.success =>
                       LocalStorage_download_file(put.storage, path)
                           = [success |-> TRUE, value |-> bytes]

\* C21: under any interleaving of register and edit-profile requests, no two
\* UserAccounts share a username and no two share an e-mail address.
C21_AccountsUnique ==
    \A i, j \in DOMAIN users :
        i # j => /\ users[i].username # users[j].username
                 /\ users[i].email # users[j].email

\* The uploads whose filename carries an extension that is not allowed.
DisallowedUploads ==
    { up \in Uploads :
          Contains(up.name, ".") /\ file_ext(up.name) \notin ALLOWED_EXTENSIONS }

\* The request is answered with a validation error and nothing is stored.
RejectedAsInvalid(r) ==
    /\ r.status = "validation_error"
    /\ r.files = files /\ r.versions = versions /\ r.storage = storage

\* C22: any request that would store bytes under a filename with a
\* disallowed extension (web upload, API upload, new version through web
\* edit, new version through API put) is answered with a validation error and
\* stores nothing: no bytes, no FileRecord, no FileVersion row.
C22_DisallowedExtensionRejected ==
    \A up \in DisallowedUploads, u \in Users, m \in Forms,
       x \in UploadFaults :
        /\ RejectedAsInvalid(upload_file_result(u, up.name, up.data, m, x))
        /\ \A t \in { k \in Tokens : validate_token(k) } :
               RejectedAsInvalid(FileModifyAPI_post_result(t,
                   [name |-> up.name, data |-> up.data,
                    content_length |-> Len(up.data)],
                   metadata_from_form(m), x))
        /\ \A f \in FileIds :
               /\ get_file_by_id(files, f) # None
               /\ permitted(files[f], u, "write")
               => /\ RejectedAsInvalid(
                         edit_file_result(u, f, m, Some(up), x))
                  /\ \A t \in { k \in Tokens :
                                    /\ validate_token(k)
                                    /\ Get(get_user_from_token(k))._id = u } :
                         RejectedAsInvalid(FileModifyAPI_put_result(t, f,
                             [kind |-> "multipart", metadata |-> None,
                              file |-> Some([name |-> up.name,
                                             data |-> up.data,
                                             content_length |->
                                                 Len(up.data)])], x))

\* The model call failed (it raised) or returned unusable data (no content,
\* or for the NL-to-SQL handler a text that is not a SELECT statement).
UpstreamFailed(inv) ==
    /\ inv.reply # None
    /\ \/ Get(inv.reply).kind # "text"
       \/ inv.handler = "AISQL" /\ convert_to_sql(Get(inv.reply)) = None

\* C23: when the external LLM call fails or returns unusable data, the Lambda
\* handlers return a failed result (never a success response) that carries
\* the underlying error message.
C23_UpstreamFailureSurfaced ==
    \A p \in Procs :
        procs[p].op = "lambda" /\ procs[p].pc = "return"
        /\ UpstreamFailed(Get(procs[p].form))
        => LET inv == Get(procs[p].form)
               response == Get(inv.response)
           IN  /\ response.statusCode # 200
               /\ response.error # None
               /\ Get(inv.reply).kind = "raise" =>
                      \E i \in DOMAIN Get(response.error) :
                          Get(response.error)[i] = Get(inv.reply).message

\* C24: stored bytes of a version are never overwritten by a later upload:
\* whatever request is served, the bytes held under the storage reference of
\* every existing FileVersion row are the same after it as before, so that
\* downloading version v keeps returning the bytes version v was created
\* with.
C24_VersionBytesNeverOverwritten ==
    [][\A i \in DOMAIN versions :
           is_file(storage, versions[i].s3_key) =>
               /\ is_file(storage', versions[i].s3_key)
               /\ storage'[versions[i].s3_key] = storage[versions[i].s3_key]
      ]_vars

\* C25: restore_version reports an outcome that matches what it did: when it
\* has repointed the FileRecord to the requested version it answers with
\* success, and it answers 'Error restoring version' only when the FileRecord
\* was left unchanged.
C25_RestoreReportsWhatItDid ==
    \A u \in Users, f \in FileIds, v \in Versions :
        LET r == restore_version_result(u, f, v)
        IN  /\ r.files # files => r.status = "restored"
            /\ r.status = "restore_error" => r.files = files

\* C26: in every state a concurrent reader can see, the states between the
\* two writes of createFile included, every non-deleted FileRecord has a
\* FileVersion row numbered as its current_version.
C26_VisibleRecordHasCurrentRow ==
    \A f \in FileIds :
        ~files[f].is_deleted => HasCurrentRow(files, versions, f)

\* C27: after every completed createFile, addVersion and restoreVersion, the
\* FileRecord's storage reference is the storage reference of one of the
\* file's FileVersion rows numbered as the record's current_version.
C27_RecordKeyIsCurrentRowKey ==
    \A f \in FileIds :
        \E i \in get_file_versions(versions, f) :
            /\ versions[i].version_number = files[f].current_version
            /\ versions[i].s3_key = files[f].s3_key

\* A file restored to an earlier version whose bytes are stored elsewhere
\* than those of a later version.
C27_Witness ==
    \E f \in FileIds :
        \E i, j \in get_file_versions(versions, f) :
            /\ versions[i].version_number = files[f].current_version
            /\ versions[i].s3_key = files[f].s3_key
            /\ versions[j].version_number > files[f].current_version
            /\ versions[j].s3_key # files[f].s3_key

\* A sharing update by somebody who is not the owner of the file is refused
\* and writes nothing.
SharingRefused(u, f) ==
    \A s \in ShareForms :
        LET r == share_file_result(u, f, s.read, s.write, s.delete)
        IN  /\ r.status \in {"denied", "not_found"}
            /\ r.files = files /\ r.versions = versions
            /\ r.storage = storage

\* C28: only the owner of a file can change its permission set.  A sharing
\* update by any other user, also one in the write and delete sets, is
\* refused and leaves the permission set unchanged; the permission set's
\* owner field is always the record's owning user; and whenever a request
\* changes a permission set, it is a sharing update made by the owner.
C28_OnlyOwnerChangesPermissions ==
    /\ [](\A f \in FileIds :
              /\ files[f].permissions.owner = files[f].user_id
              /\ \A u \in Users \ {files[f].user_id} : SharingRefused(u, f))
    /\ [][\A f \in FileIds :
              files'[f].permissions # files[f].permissions =>
                  \E s \in ShareForms :
                      share_file(files[f].user_id, f, s.read, s.write,
                                 s.delete)]_vars

\* A file whose write and delete sets name somebody other than its owner.
C28_Witness ==
    \E f \in FileIds :
        \E u \in Users \ {files[f].user_id} :
            /\ ~files[f].is_deleted
            /\ u \in files[f].permissions.write
            /\ u \in files[f].permissions.delete

\* The request failed and the FileRecords and FileVersion rows are as they
\* were before it.
FailedStatuses == {"storage_failure", "version_failed", "server_error"}

NothingOrAll(r) ==
    r.status \in FailedStatuses =>
        r.files = files /\ r.versions = versions

\* C29: an edit request that carries both new metadata and a new file is
\* all-or-nothing: if the storage upload or the version append fails, the
\* FileRecord's metadata is as it was before the request, as are its
\* versions, current_version and storage reference.
C29_EditAllOrNothing ==
    \A f \in FileIds :
        /\ \A u \in Users, m \in Forms, up \in Uploads, x \in UploadFaults :
               NothingOrAll(edit_file_result(u, f, m, Some(up), x))
        /\ \A t \in Tokens, body \in PutBodies, x \in ApiUploadFaults :
               NothingOrAll(FileModifyAPI_put_result(t, f, body, x))

\* C30: the identity under which an API request is authorized depends on the
\* presented token: two requests carrying different non-empty Authorization
\* tokens are not both evaluated by the access gate as the same user.
C30_IdentityDependsOnToken ==
    \A t1, t2 \in { t \in Tokens : validate_token(t) } :
        t1 # t2 =>
            ~ /\ api_auth_required(t1) # None
              /\ api_auth_required(t1) = api_auth_required(t2)

====
